---- MODULE Spec2Model ----
(***************************************************************************)
(* Omnigraph Codex: the audio <-> image codec of omnigraph_codex.py.       *)
(*                                                                         *)
(* The codec quantizes 16-bit PCM samples to bytes in float32 arithmetic,  *)
(* packs them into a square RGB raster by one of three methods (A, B, C),  *)
(* and reverses the transform on decode.                                   *)
(***************************************************************************)
EXTENDS Integers, Sequences, FiniteSets, TLC

VARIABLES
    sample,          \* quantizer study: one int16 PCM sample
    byte,            \* quantizer study: its uint8 image, or None
    restored,        \* quantizer study: the dequantized int16, or None
    encoding_method, \* self.encoding_method: "A", "B" or "C"
    float_bits,      \* significand width numpy gives int16_array * 0.6
    pcm,             \* the PCM stream ffmpeg hands to the encoder
    image_in,        \* the image handed to the decoder, or None
    encoded_image,   \* result of encode_audio_to_image, or None
    decoded_audio,   \* samples in the buffer decode_image_to_audio returns, or None
    channels,        \* red, green, blue of the last encode before padding
    first_image,     \* the raster of the first pass, kept for comparison
    error_popup,     \* exception reported by show_error in the last call
    raised,          \* exception that left the last call, "" if none
    pc,              \* position in the encode / decode / re-encode pass
    fft_N,           \* band split study: N = len(audio_float), 0 before a run
    band_fft,        \* band split study: the bins low_fft, mid_fft and
                     \* high_fft keep, or None
    last_operation,  \* self.last_operation: None, 'encode' or 'decode'
    last_audio_file, \* self.last_audio_file: None or a path
    last_image_file, \* self.last_image_file: None or a path
    output_type,     \* self.output_type: None, 'image' or 'audio'
    save_disabled,   \* self.save_btn.disabled
    ran,             \* the last handler and the codec calls it made, or None
    audio_data,      \* self.audio_data: None or the bytes of the loaded frames
    current_position,\* self.current_position, in samples
    is_playing,      \* self.is_playing
    stream,          \* self.stream: None, or the state of the open stream
    callback,        \* the audio thread inside audio_callback: its locals
    returned,        \* what audio_callback returned last, or None
    slider,          \* the main thread inside slider_released: its locals
    first_start      \* start of the first callback of a restarted stream

qvars == <<sample, byte, restored>>
cvars == <<encoding_method, float_bits, pcm, image_in, encoded_image,
           decoded_audio, channels, first_image, error_popup, raised, pc>>
bvars == <<fft_N, band_fft>>
uvars == <<last_operation, last_audio_file, last_image_file, output_type,
           save_disabled, ran>>
pvars == <<audio_data, current_position, is_playing, stream, callback,
           returned, slider, first_start>>
xvars == <<bvars, uvars, pvars>>
vars == <<sample, byte, restored, encoding_method, float_bits, pcm, image_in,
          encoded_image, decoded_audio, channels, first_image, error_popup,
          raised, pc, fft_N, band_fft, last_operation, last_audio_file,
          last_image_file, output_type, save_disabled, ran, audio_data,
          current_position, is_playing, stream, callback, returned, slider,
          first_start>>

\* Python optionals: None is the empty tuple, a value v is <<v>>
None == <<>>
Some(v) == <<v>>
Val(o) == o[1]

Int16 == -32768..32767
UInt8 == 0..255

\* the band split study is not running
BandsIdle ==
    /\ fft_N = 0
    /\ band_fft = None

\* __init__: no file chosen yet, nothing to save, save_btn disabled
SessionIdle ==
    /\ last_operation = None
    /\ last_audio_file = None
    /\ last_image_file = None
    /\ output_type = None
    /\ save_disabled = TRUE
    /\ ran = None

\* both threads outside their handlers
ThreadsIdle ==
    /\ callback = [pc |-> "idle"]
    /\ returned = None
    /\ slider = [pc |-> "idle"]
    /\ first_start = None

\* __init__: nothing loaded, nothing playing
PlaybackIdle ==
    /\ audio_data = None
    /\ current_position = 0
    /\ is_playing = FALSE
    /\ stream = None
    /\ ThreadsIdle

ExtraIdle == BandsIdle /\ SessionIdle /\ PlaybackIdle

(***************************************************************************)
(* IEEE-754 binary floating point, as numpy evaluates the expressions.     *)
(* A float is kept exactly as sign and magnitude in fixed point:           *)
(*   |v| = i + f[1]/Base + f[2]/Base^2 + ... + f[5]/Base^5                 *)
(* (70 fractional bits, enough for every value the codec produces), with   *)
(* sticky = TRUE when a division left a non-zero remainder below f[5].     *)
(* Rnd(p, v) rounds to p significant bits, ties to even: p = 24 is         *)
(* np.float32, p = 53 is np.float64.                                       *)
(***************************************************************************)
LimbBits == 14
Limbs == 5
Base == 2^LimbBits
FracBits == Limbs * LimbBits

RECURSIVE BitLen(_)
BitLen(n) == IF n = 0 THEN 0 ELSE 1 + BitLen(n \div 2)

NoFrac == <<0, 0, 0, 0, 0>>

FromInt(n) ==
    [neg |-> n < 0, i |-> IF n < 0 THEN 0 - n ELSE n, f |-> NoFrac,
     sticky |-> FALSE]

\* a / d for naturals a and d > 0, before rounding
DivNat(a, d) ==
    LET t1 == (a % d) * Base
        t2 == (t1 % d) * Base
        t3 == (t2 % d) * Base
        t4 == (t3 % d) * Base
        t5 == (t4 % d) * Base
    IN  [neg |-> FALSE, i |-> a \div d,
         f |-> <<t1 \div d, t2 \div d, t3 \div d, t4 \div d, t5 \div d>>,
         sticky |-> (t5 % d) # 0]

\* x * v for a float x and a natural v, before rounding
MulNat(x, v) ==
    LET t5 == x.f[5] * v
        t4 == x.f[4] * v + t5 \div Base
        t3 == x.f[3] * v + t4 \div Base
        t2 == x.f[2] * v + t3 \div Base
        t1 == x.f[1] * v + t2 \div Base
    IN  [neg |-> x.neg, i |-> x.i * v + t1 \div Base,
         f |-> <<t1 % Base, t2 % Base, t3 % Base, t4 % Base, t5 % Base>>,
         sticky |-> FALSE]

\* x * n for a float x >= 0 and an integer n, before rounding
MulInt(x, n) ==
    [MulNat(x, IF n < 0 THEN 0 - n ELSE n) EXCEPT !.neg = n < 0]

MagKey(x) == <<x.i>> \o x.f

MagLess(x, y) ==
    \E k \in 1..(Limbs + 1) :
        /\ MagKey(x)[k] < MagKey(y)[k]
        /\ \A j \in 1..(k - 1) : MagKey(x)[j] = MagKey(y)[j]

AddMag(x, y) ==
    LET t5 == x.f[5] + y.f[5]
        t4 == x.f[4] + y.f[4] + t5 \div Base
        t3 == x.f[3] + y.f[3] + t4 \div Base
        t2 == x.f[2] + y.f[2] + t3 \div Base
        t1 == x.f[1] + y.f[1] + t2 \div Base
    IN  [neg |-> x.neg, i |-> x.i + y.i + t1 \div Base,
         f |-> <<t1 % Base, t2 % Base, t3 % Base, t4 % Base, t5 % Base>>,
         sticky |-> FALSE]

\* |x| - |y| for |x| >= |y|, with the sign of x
SubMag(x, y) ==
    LET s5 == x.f[5] - y.f[5]
        b5 == IF s5 < 0 THEN 1 ELSE 0
        s4 == x.f[4] - y.f[4] - b5
        b4 == IF s4 < 0 THEN 1 ELSE 0
        s3 == x.f[3] - y.f[3] - b4
        b3 == IF s3 < 0 THEN 1 ELSE 0
        s2 == x.f[2] - y.f[2] - b3
        b2 == IF s2 < 0 THEN 1 ELSE 0
        s1 == x.f[1] - y.f[1] - b2
        b1 == IF s1 < 0 THEN 1 ELSE 0
    IN  [neg |-> x.neg, i |-> x.i - y.i - b1,
         f |-> <<s1 + b1 * Base, s2 + b2 * Base, s3 + b3 * Base,
                 s4 + b4 * Base, s5 + b5 * Base>>,
         sticky |-> FALSE]

\* x + y, before rounding
FAdd(x, y) ==
    IF x.neg = y.neg THEN AddMag(x, y)
    ELSE IF MagLess(y, x) THEN SubMag(x, y)
    ELSE IF MagLess(x, y) THEN SubMag(y, x)
    ELSE FromInt(0)

LeadingZeros(f) ==
    LET k == CHOOSE n \in 1..Limbs : f[n] # 0 /\ \A m \in 1..(n - 1) : f[m] = 0
    IN  LimbBits * (k - 1) + (LimbBits - BitLen(f[k]))

\* round x to q fractional bits, ties to even (0 <= q < FracBits)
RoundAt(q, x) ==
    LET j      == (q \div LimbBits) + 1
        s      == q % LimbBits
        unit   == 2^(LimbBits - s)
        half   == unit \div 2
        rem    == x.f[j] % unit
        tail   == x.sticky \/ \E k \in (j + 1)..Limbs : x.f[k] # 0
        lsbOdd == IF s > 0 THEN (x.f[j] \div unit) % 2 = 1
                  ELSE IF j > 1 THEN x.f[j - 1] % 2 = 1
                  ELSE x.i % 2 = 1
        up     == rem > half \/ (rem = half /\ (tail \/ lsbOdd))
        tr     == [neg |-> x.neg, i |-> x.i,
                   f |-> [k \in 1..Limbs |-> IF k < j THEN x.f[k]
                                              ELSE IF k = j THEN x.f[j] - rem
                                              ELSE 0],
                   sticky |-> FALSE]
        ulp    == [neg |-> x.neg, i |-> 0,
                   f |-> [k \in 1..Limbs |-> IF k = j THEN unit ELSE 0],
                   sticky |-> FALSE]
    IN  IF up THEN AddMag(tr, ulp) ELSE tr

\* round x to p significant bits
Rnd(p, x) ==
    IF x.i = 0 /\ x.f = NoFrac THEN x
    ELSE LET msb == IF x.i > 0 THEN BitLen(x.i) ELSE 0 - LeadingZeros(x.f)
             q   == p - msb
         IN  IF q >= FracBits THEN x ELSE RoundAt(q, x)

\* float -> integer conversion of astype: truncation toward zero
TruncInt(x) == IF x.neg THEN 0 - x.i ELSE x.i

AsUInt8(n) == n % 256
AsInt16(n) == ((n + 32768) % 65536) - 32768

F32 == 24
F64 == 53

(***************************************************************************)
(* Sample Quantizer                                                        *)
(***************************************************************************)
\* variant: the scale factor 256 in place of 255
Quantize_Scale256(x) ==
    LET a == x + 32768
        b == Rnd(F32, DivNat(a, 65535))
        c == Rnd(F32, MulNat(b, 256))
    IN  AsUInt8(TruncInt(c))

\* ((audio_data.astype(np.float32) + 32768) / 65535 * 255).astype(np.uint8)
\* x + 32768 is an integer below 2^24, hence exact in float32.
Quantize(x) ==
    LET a == x + 32768
        b == Rnd(F32, DivNat(a, 65535))
        c == Rnd(F32, MulNat(b, 255))
    IN  AsUInt8(TruncInt(c))

\* variant: the byte shifted left by eight bits in place of the float map
Dequantize_Shift8(b) == AsInt16(b * 256 - 32768)

\* ((bytes.astype(np.float32) / 255) * 65535 - 32768).astype(np.int16)
Dequantize(b) ==
    LET a == Rnd(F32, DivNat(b, 255))
        c == Rnd(F32, MulNat(a, 65535))
        d == Rnd(F32, FAdd(c, FromInt(-32768)))
    IN  AsInt16(TruncInt(d))

(***************************************************************************)
(* Exceptions: a step yields Ok(v) or Raise(e).                            *)
(***************************************************************************)
Ok(v) == [exc |-> "", val |-> <<v>>]
Raise(e) == [exc |-> e, val |-> <<>>]

(***************************************************************************)
(* Raster Packer                                                           *)
(***************************************************************************)
\* int(np.ceil(np.sqrt(n)))
CeilSqrt(n) ==
    CHOOSE s \in 0..n : s * s >= n /\ \A t \in 0..(s - 1) : t * t < n

Zeros(k) == [n \in 1..k |-> 0]

\* variant: a negative width cuts the array instead of failing
Pad_Truncating(a, k) ==
    IF k < 0 THEN Ok(SubSeq(a, 1, Len(a) + k)) ELSE Ok(a \o Zeros(k))

\* np.pad(a, (0, k), mode='constant'): a negative width is a ValueError
Pad(a, k) == IF k < 0 THEN Raise("ValueError") ELSE Ok(a \o Zeros(k))

\* variant: column-major layout
Reshape_ColumnMajor(a, side) ==
    IF Len(a) # side * side THEN Raise("ValueError")
    ELSE Ok([r \in 1..side |-> [c \in 1..side |-> a[(c - 1) * side + r]]])

\* a.reshape((side, side)): row-major, a ValueError unless len(a) = side^2
Reshape(a, side) ==
    IF Len(a) # side * side THEN Raise("ValueError")
    ELSE Ok([r \in 1..side |-> [c \in 1..side |-> a[(r - 1) * side + c]]])

\* rgb_array = np.zeros((side, side, 3)); rgb_array[:, :, k] = channel k
\* padded to side^2 and reshaped; Image.fromarray(rgb_array, 'RGB')
PackChannels(side, red, green, blue) ==
    LET required == side * side
        pr == Pad(red, required - Len(red))
        pg == Pad(green, required - Len(green))
        pb == Pad(blue, required - Len(blue))
    IN  IF pr.exc # "" THEN Raise(pr.exc)
        ELSE IF pg.exc # "" THEN Raise(pg.exc)
        ELSE IF pb.exc # "" THEN Raise(pb.exc)
        ELSE LET gr == Reshape(Val(pr.val), side)
                 gg == Reshape(Val(pg.val), side)
                 gb == Reshape(Val(pb.val), side)
             IN  IF gr.exc # "" THEN Raise(gr.exc)
                 ELSE IF gg.exc # "" THEN Raise(gg.exc)
                 ELSE IF gb.exc # "" THEN Raise(gb.exc)
                 ELSE Ok([h |-> side, w |-> side,
                          px |-> [r \in 1..side |-> [c \in 1..side |->
                                    <<Val(gr.val)[r][c], Val(gg.val)[r][c],
                                      Val(gb.val)[r][c]>>]]])

\* rgb_array[:, :, k].flatten(), k = 1 red, 2 green, 3 blue
Flatten(img, k) ==
    [n \in 1..(img.h * img.w) |->
        img.px[((n - 1) \div img.w) + 1][((n - 1) % img.w) + 1][k]]

(***************************************************************************)
(* Method A: channel multiplexing                                          *)
(***************************************************************************)
\* variant: the second cut at twice the first
SplitPoints_TwiceThird(total) == <<total \div 3, 2 * (total \div 3)>>

\* split_points = [total // 3, 2 * total // 3]
SplitPoints(total) == <<total \div 3, (2 * total) \div 3>>

\* red, green, blue = audio_8bit[:p0], audio_8bit[p0:p1], audio_8bit[p1:]
SplitA(q) ==
    LET sp == SplitPoints(Len(q))
    IN  <<SubSeq(q, 1, sp[1]), SubSeq(q, sp[1] + 1, sp[2]),
          SubSeq(q, sp[2] + 1, Len(q))>>

EncodeA(q) ==
    LET ch   == SplitA(q)
        side == CeilSqrt(Len(ch[1]))
    IN  [res |-> PackChannels(side, ch[1], ch[2], ch[3]), channels |-> ch]

(***************************************************************************)
(* Method B: pixel interleaving                                            *)
(***************************************************************************)
\* audio_8bit[:len - len % 3].reshape(-1, 3), column k (0-based)
TripleColumn(q, k) == [i \in 1..(Len(q) \div 3) |-> q[3 * (i - 1) + k + 1]]

\* red = column 0, green = column 2, blue = column 1
EncodeB(q) ==
    LET ch   == <<TripleColumn(q, 0), TripleColumn(q, 2), TripleColumn(q, 1)>>
        side == CeilSqrt(Len(q) \div 3)
    IN  [res |-> PackChannels(side, ch[1], ch[2], ch[3]), channels |-> ch]

(***************************************************************************)
(* Method C: spectral bands                                                *)
(***************************************************************************)
Fs == 44100
low_cutoff == 1000
mid_cutoff == 4000

\* k_low = int(low_cutoff * N / Fs), k_mid = int(mid_cutoff * N / Fs)
k_low(N) == (low_cutoff * N) \div Fs
k_mid(N) == (mid_cutoff * N) \div Fs

\* indices of np.fft.rfft(audio_float): 0 .. N // 2
Bins(N) == 0..(N \div 2)

\* the bins each band spectrum keeps (the others are set to 0.0)
LowBins(N) == {k \in Bins(N) : k < k_low(N)}
\* variant: the mid band starts one bin late
MidBins_AboveLow(N) == {k \in Bins(N) : k > k_low(N) /\ k < k_mid(N)}

MidBins(N) == {k \in Bins(N) : k >= k_low(N) /\ k < k_mid(N)}
HighBins(N) == {k \in Bins(N) : k >= k_mid(N)}

TowardZero(x) == IF x > 0 THEN x - 1 ELSE IF x < 0 THEN x + 1 ELSE 0

\* to_8bit(np.fft.irfft(band_fft, n=N)) for one band, as the set of byte
\* sequences the transform can yield.  A band that keeps no bin is the zero
\* signal.  A band that keeps every bin is irfft(rfft(x)): for N = 1 the
\* transform pair is the identity; for N > 1 it is x up to the round-off of
\* the pair, so (signal * 32768).astype(np.int16) is the sample itself or
\* the next integer toward zero.  Bands that keep part of the spectrum need
\* N > Fs / mid_cutoff and are outside the stream lengths explored here.
RECURSIVE SeqChoices(_, _)
SeqChoices(cands, n) ==
    IF n = 0 THEN {<<>>}
    ELSE {Append(p, c) : p \in SeqChoices(cands, n - 1), c \in cands[n]}

BandChoices(x, bins) ==
    CASE bins = {} ->
            {[n \in 1..Len(x) |-> Quantize(0)]}
      [] bins = Bins(Len(x)) ->
            SeqChoices([n \in 1..Len(x) |->
                          IF Len(x) = 1 THEN {Quantize(x[n])}
                          ELSE {Quantize(x[n]), Quantize(TowardZero(x[n]))}],
                       Len(x))

\* the possible (low_8bit, mid_8bit, high_8bit) of a stream
BandBytes(x) ==
    IF Len(x) = 0 THEN {<<>>}
    ELSE {<<l, m, h>> : l \in BandChoices(x, LowBins(Len(x))),
                        m \in BandChoices(x, MidBins(Len(x))),
                        h \in BandChoices(x, HighBins(Len(x)))}

\* np.fft.rfft raises ValueError on an empty array
EncodeC(x, bands) ==
    IF Len(x) = 0 THEN [res |-> Raise("ValueError"), channels |-> <<>>]
    ELSE [res |-> PackChannels(CeilSqrt(Len(x)), bands[1], bands[2], bands[3]),
          channels |-> bands]

(***************************************************************************)
(* encode_audio_to_image                                                   *)
(***************************************************************************)
Methods == {"A", "B", "C"}

\* the body of the try block: ffmpeg, wave read, quantization, packing
EncodeBody(method, x, ffmpeg_ok, bands) ==
    IF ~ffmpeg_ok THEN [res |-> Raise("CalledProcessError"), channels |-> <<>>]
    ELSE LET audio_8bit == [n \in 1..Len(x) |-> Quantize(x[n])]
         IN  CASE method = "A" -> EncodeA(audio_8bit)
               [] method = "B" -> EncodeB(audio_8bit)
               [] method = "C" -> EncodeC(x, bands)

\* variant: only the ffmpeg failure is handled
CaughtByEncode_OnlyFfmpeg(e) == e = "CalledProcessError"

\* except subprocess.CalledProcessError / except Exception: both return None
CaughtByEncode(e) == e \in {"CalledProcessError", "ValueError", "OSError"}

\* what the call returns and reports, given how the try block ended
EncodeOutcome(body) ==
        IF body.res.exc = ""
        THEN [ret |-> Some(Val(body.res.val)), popup |-> "", raised |-> "",
              channels |-> body.channels]
        ELSE IF CaughtByEncode(body.res.exc)
        THEN [ret |-> None, popup |-> body.res.exc, raised |-> "",
              channels |-> body.channels]
        ELSE [ret |-> None, popup |-> "", raised |-> body.res.exc,
              channels |-> body.channels]

encode_audio_to_image(method, x, ffmpeg_ok, bands) ==
    EncodeOutcome(EncodeBody(method, x, ffmpeg_ok, bands))

(***************************************************************************)
(* decode_image_to_audio                                                   *)
(***************************************************************************)
\* the literal 0.6, 0.3 or 0.1 (tenths / 10) as a double, then in the
\* width of the product
Weight(bits, tenths) == Rnd(bits, Rnd(F64, DivNat(tenths, 10)))

\* variant: the sum rounded to the nearest integer before the cast
Remix_Rounded(bits, red_16, green_16, blue_16) ==
    LET pr == Rnd(bits, MulInt(Weight(bits, 6), red_16))
        pg == Rnd(bits, MulInt(Weight(bits, 3), green_16))
        pb == Rnd(bits, MulInt(Weight(bits, 1), blue_16))
        s1 == Rnd(bits, FAdd(pr, pg))
        s2 == Rnd(bits, FAdd(s1, pb))
        half == [DivNat(1, 2) EXCEPT !.neg = s2.neg]
    IN  AsInt16(TruncInt(FAdd(s2, half)))

\* (red_16 * 0.6 + green_16 * 0.3 + blue_16 * 0.1).astype(np.int16)
Remix(bits, red_16, green_16, blue_16) ==
    LET pr == Rnd(bits, MulInt(Weight(bits, 6), red_16))
        pg == Rnd(bits, MulInt(Weight(bits, 3), green_16))
        pb == Rnd(bits, MulInt(Weight(bits, 1), blue_16))
        s1 == Rnd(bits, FAdd(pr, pg))
        s2 == Rnd(bits, FAdd(s1, pb))
    IN  AsInt16(TruncInt(s2))

\* variant: the blue channel before the green one
DecodeA_BlueFirst(img) ==
    LET reconstructed_audio == Flatten(img, 1) \o Flatten(img, 3) \o Flatten(img, 2)
    IN  [n \in 1..Len(reconstructed_audio) |-> Dequantize(reconstructed_audio[n])]

DecodeA(img) ==
    LET reconstructed_audio == Flatten(img, 1) \o Flatten(img, 2) \o Flatten(img, 3)
    IN  [n \in 1..Len(reconstructed_audio) |-> Dequantize(reconstructed_audio[n])]

\* variant: np.stack([red, green, blue], axis=-1).flatten()
StackB_RGB(img) ==
    LET red   == Flatten(img, 1)
        blue  == Flatten(img, 3)
        green == Flatten(img, 2)
    IN  [n \in 1..(3 * img.h * img.w) |->
            <<red, green, blue>>[((n - 1) % 3) + 1][((n - 1) \div 3) + 1]]

\* np.stack([red, blue, green], axis=-1).flatten()
StackB(img) ==
    LET red   == Flatten(img, 1)
        blue  == Flatten(img, 3)
        green == Flatten(img, 2)
    IN  [n \in 1..(3 * img.h * img.w) |->
            <<red, blue, green>>[((n - 1) % 3) + 1][((n - 1) \div 3) + 1]]

DecodeB(img) ==
    LET audio_8bit == StackB(img)
    IN  [n \in 1..Len(audio_8bit) |-> Dequantize(audio_8bit[n])]

DecodeC(bits, img) ==
    LET red   == Flatten(img, 1)
        green == Flatten(img, 2)
        blue  == Flatten(img, 3)
    IN  [n \in 1..(img.h * img.w) |->
            Remix(bits, Dequantize(red[n]), Dequantize(green[n]),
                  Dequantize(blue[n]))]

\* the body of the try block; input is None when Image.open fails
DecodeBody(method, bits, input) ==
    IF input = None THEN Raise("OSError")
    ELSE CASE method = "A" -> Ok(DecodeA(Val(input)))
           [] method = "B" -> Ok(DecodeB(Val(input)))
           [] method = "C" -> Ok(DecodeC(bits, Val(input)))

\* except Exception: return None
CaughtByDecode(e) == e \in {"CalledProcessError", "ValueError", "OSError"}

\* what the call returns and reports, given how the try block ended
DecodeOutcome(body) ==
        IF body.exc = ""
        THEN [ret |-> Some(Val(body.val)), popup |-> "", raised |-> ""]
        ELSE IF CaughtByDecode(body.exc)
        THEN [ret |-> None, popup |-> body.exc, raised |-> ""]
        ELSE [ret |-> None, popup |-> "", raised |-> body.exc]

decode_image_to_audio(method, bits, input) ==
    DecodeOutcome(DecodeBody(method, bits, input))

(***************************************************************************)
(* Quantizer study: every int16 sample is quantized, then dequantized.     *)
(***************************************************************************)
CodecIdle ==
    /\ encoding_method = "A"
    /\ float_bits = F64
    /\ pcm = <<>>
    /\ image_in = None
    /\ encoded_image = None
    /\ decoded_audio = None
    /\ channels = <<>>
    /\ first_image = None
    /\ error_popup = ""
    /\ raised = ""
    /\ pc = "idle"

InitQ ==
    /\ sample \in Int16
    /\ byte = None
    /\ restored = None
    /\ CodecIdle
    /\ ExtraIdle

QuantizeSample ==
    /\ byte = None
    /\ byte' = Some(Quantize(sample))
    /\ UNCHANGED <<sample, restored>>
    /\ UNCHANGED cvars
    /\ UNCHANGED xvars

DequantizeByte ==
    /\ byte # None
    /\ restored = None
    /\ restored' = Some(Dequantize(Val(byte)))
    /\ UNCHANGED <<sample, byte>>
    /\ UNCHANGED cvars
    /\ UNCHANGED xvars

NextQ == QuantizeSample \/ DequantizeByte

SpecQ == InitQ /\ [][NextQ]_vars

Abs(n) == IF n < 0 THEN 0 - n ELSE n

(***************************************************************************)
(* Codec pass: a stream is encoded, the raster decoded, the decoded audio  *)
(* saved, reopened and encoded again; or an image file is decoded.         *)
(***************************************************************************)
MaxLen == 6
ByteSpread == 1

SampleSet == {0, 32767}

RECURSIVE SeqsUpTo(_, _)
SeqsUpTo(S, n) ==
    IF n = 0 THEN {<<>>}
    ELSE LET shorter == SeqsUpTo(S, n - 1)
         IN  shorter \cup {Append(p, v) : p \in {t \in shorter : Len(t) = n - 1},
                                          v \in S}

Streams == SeqsUpTo(SampleSet, MaxLen)

PixelBytes == (0..ByteSpread) \cup {127, 128} \cup ((255 - ByteSpread)..255)

\* image files: one pixel of any colour, or a 1 x 2 strip
ImageFiles ==
    {[h |-> 1, w |-> 1, px |-> <<<< <<r, g, b>> >>>>] :
        r \in PixelBytes, g \in PixelBytes, b \in PixelBytes}
    \cup {[h |-> 1, w |-> 2, px |-> << << <<r, 0, 255>>, <<128, r, 1>> >> >>] :
        r \in PixelBytes}

QuantIdle ==
    /\ sample = 0
    /\ byte = None
    /\ restored = None

Init ==
    /\ QuantIdle
    /\ encoding_method \in Methods
    /\ float_bits \in {F32, F64}
    /\ pcm \in Streams
    /\ image_in = None
    /\ encoded_image = None
    /\ decoded_audio = None
    /\ channels = <<>>
    /\ first_image = None
    /\ error_popup = ""
    /\ raised = ""
    /\ pc = "ready"
    /\ ExtraIdle

\* encode_audio_to_image(audio_path)
Encode ==
    /\ pc \in {"ready", "reopened"}
    /\ \E ffmpeg_ok \in BOOLEAN :
       \E bands \in (IF encoding_method = "C" /\ ffmpeg_ok
                     THEN BandBytes(pcm) ELSE {<<>>}) :
       \E out \in {encode_audio_to_image(encoding_method, pcm, ffmpeg_ok, bands)} :
              /\ encoded_image' = out.ret
              /\ channels' = out.channels
              /\ error_popup' = out.popup
              /\ raised' = out.raised
    /\ pc' = IF pc = "ready" THEN "encoded" ELSE "reencoded"
    /\ UNCHANGED <<encoding_method, float_bits, pcm, image_in, decoded_audio,
                   first_image>>
    /\ UNCHANGED qvars
    /\ UNCHANGED xvars

\* decode_image_to_audio(self.encoded_image)
Decode ==
    /\ pc = "encoded"
    /\ encoded_image # None
    /\ \E out \in {decode_image_to_audio(encoding_method, float_bits, encoded_image)} :
           /\ decoded_audio' = out.ret
           /\ error_popup' = out.popup
           /\ raised' = out.raised
    /\ image_in' = encoded_image
    /\ pc' = "decoded"
    /\ UNCHANGED <<encoding_method, float_bits, pcm, encoded_image, channels,
                   first_image>>
    /\ UNCHANGED qvars
    /\ UNCHANGED xvars

\* the decoded WAV is saved and chosen as the next audio file; it is already
\* mono 16-bit 44100 Hz, so ffmpeg hands its samples back unchanged
Reopen ==
    /\ pc = "decoded"
    /\ decoded_audio # None
    /\ pcm' = Val(decoded_audio)
    /\ first_image' = encoded_image
    /\ pc' = "reopened"
    /\ UNCHANGED <<encoding_method, float_bits, image_in, encoded_image,
                   decoded_audio, channels, error_popup, raised>>
    /\ UNCHANGED qvars
    /\ UNCHANGED xvars

\* decode_image_to_audio(file_path) on an image file, readable or not
DecodeFile ==
    /\ pc = "ready"
    /\ pcm = <<>>
    /\ \E file \in {None} \cup {Some(img) : img \in ImageFiles} :
       \E out \in {decode_image_to_audio(encoding_method, float_bits, file)} :
              /\ image_in' = file
              /\ decoded_audio' = out.ret
              /\ error_popup' = out.popup
              /\ raised' = out.raised
    /\ pc' = "file_decoded"
    /\ UNCHANGED <<encoding_method, float_bits, pcm, encoded_image, channels,
                   first_image>>
    /\ UNCHANGED qvars
    /\ UNCHANGED xvars

Next == Encode \/ Decode \/ Reopen \/ DecodeFile

Spec == Init /\ [][Next]_vars

(***************************************************************************)
(* Properties                                                              *)
(***************************************************************************)
QuantStep == 65535 \div 255

\* the stream of the last encode call and its raster belong together
Fresh == pc \in {"encoded", "decoded", "reencoded"}

\* the last encode call got a PCM stream from ffmpeg
Converted == pc \in {"encoded", "reencoded"} /\ error_popup # "CalledProcessError"

PcmBytes == [n \in 1..Len(pcm) |-> Quantize(pcm[n])]

\* C1: every int16 sample quantizes to floor((x + 32768) / 65535 * 255), a
\* value in 0..255, and dequantizing that byte gives a sample within one
\* quantization step (65535 / 255 = 257) of x.
C1_QuantizerRoundTrip ==
    /\ byte # None =>
          /\ Val(byte) \in UInt8
          /\ Val(byte) = ((sample + 32768) * 255) \div 65535
    /\ restored # None => Abs(Val(restored) - sample) <= QuantStep

C1_Witness ==
    /\ restored # None
    /\ Abs(Val(restored) - sample) = QuantStep - 1

\* C2: a Method C raster has side = ceil(sqrt(M)) with side^2 >= M; each
\* band's M bytes lie row-major in their channel followed by zeros, and
\* flattening the channel and keeping its first M values returns the band.
C2_PackRoundTrip ==
    (encoding_method = "C" /\ Fresh /\ encoded_image # None) =>
        LET img  == Val(encoded_image)
            M    == Len(pcm)
            side == img.h
        IN  /\ img.w = side
            /\ side * side >= M
            /\ (side - 1) * (side - 1) < M
            /\ \A k \in 1..3 :
                  /\ Len(channels[k]) = M
                  /\ SubSeq(Flatten(img, k), 1, M) = channels[k]
                  /\ \A r \in 1..side : \A c \in 1..side :
                        img.px[r][c][k] =
                            IF (r - 1) * side + c <= M
                            THEN channels[k][(r - 1) * side + c] ELSE 0

C2_Witness ==
    /\ encoding_method = "C"
    /\ pc = "encoded"
    /\ encoded_image # None
    /\ Len(pcm) = 5
    /\ Val(encoded_image).h = 3
    /\ channels[3][5] = 255

\* C3: Method B puts triple i of the quantized stream (s0, s1, s2) into
\* pixel i, row-major, as red = s0, green = s2, blue = s1; the decoder's
\* stacking of that raster gives back s0, s1, s2, so the first 3*floor(n/3)
\* decoded bytes are the first 3*floor(n/3) quantized bytes.
C3_MethodBPermutation ==
    (encoding_method = "B" /\ Fresh /\ encoded_image # None) =>
        LET img == Val(encoded_image)
            q   == PcmBytes
            t   == Len(pcm) \div 3
        IN  /\ \A i \in 1..t :
                  img.px[((i - 1) \div img.w) + 1][((i - 1) % img.w) + 1]
                      = <<q[3 * i - 2], q[3 * i], q[3 * i - 1]>>
            /\ SubSeq(StackB(img), 1, 3 * t) = SubSeq(q, 1, 3 * t)
            /\ (pc = "decoded" /\ decoded_audio # None) =>
                  \A n \in 1..(3 * t) :
                      Val(decoded_audio)[n] = Dequantize(q[n])

C3_Witness ==
    /\ encoding_method = "B"
    /\ pc = "decoded"
    /\ decoded_audio # None
    /\ Len(pcm) = 6
    /\ pcm[2] # pcm[3]
    /\ pcm[4] # pcm[5]

\* the cut positions of Method A in a stream of n bytes
Cuts(n) == <<0, n \div 3, (2 * n) \div 3, n>>

\* C4 as stated: decoding a Method A raster gives 3*side^2 samples, the
\* first n being dequantize(quantize(input[i])) in input order and the
\* rest padding slots.
C4_RealSamplesFirst ==
    (encoding_method = "A" /\ pc = "decoded" /\ decoded_audio # None) =>
        LET d    == Val(decoded_audio)
            n    == Len(pcm)
            side == Val(encoded_image).h
        IN  /\ Len(d) = 3 * side * side
            /\ \A i \in 1..n : d[i] = Dequantize(Quantize(pcm[i]))
            /\ \A i \in (n + 1)..Len(d) : d[i] = Dequantize(0)

\* C4 amended: decoding a Method A raster gives 3*side^2 samples in three
\* blocks of side^2, one per channel; block k starts with the samples of
\* segment k (input positions Cuts[k]+1 .. Cuts[k+1]) as
\* dequantize(quantize(input[i])), in input order, and ends with that
\* channel's padding slots, each dequantize(0) = -32768.
C4_PaddingPerChannel ==
    (encoding_method = "A" /\ pc = "decoded" /\ decoded_audio # None) =>
        LET d    == Val(decoded_audio)
            n    == Len(pcm)
            side == Val(encoded_image).h
            cut  == Cuts(n)
        IN  /\ Len(d) = 3 * side * side
            /\ Dequantize(0) = -32768
            /\ \A k \in 1..3 : \A j \in 1..(side * side) :
                  d[(k - 1) * side * side + j] =
                      IF j <= cut[k + 1] - cut[k]
                      THEN Dequantize(Quantize(pcm[cut[k] + j]))
                      ELSE Dequantize(0)

C4_Witness ==
    /\ encoding_method = "A"
    /\ pc = "decoded"
    /\ decoded_audio # None
    /\ Len(pcm) = 6
    /\ Len(Val(decoded_audio)) = 12
    /\ Val(decoded_audio)[3] = -32768
    /\ Val(decoded_audio)[3] # Dequantize(Quantize(pcm[3]))

\* C5: for every method and every PCM stream of n >= 0 samples,
\* encode_audio_to_image produces a raster rather than a failure.
C5_EncodeTotal ==
    (pc = "encoded" /\ error_popup # "CalledProcessError") =>
        encoded_image # None

\* C6: Method A never drops data silently: when a segment is longer than
\* side^2 the call fails (None, with the error reported), and whenever a
\* raster is returned every quantized input byte is in it, at its place in
\* its channel.
C6_NoSilentTruncation ==
    (encoding_method = "A" /\ Converted) =>
        LET q    == PcmBytes
            n    == Len(pcm)
            cut  == Cuts(n)
            side == CeilSqrt(n \div 3)
            long == \E k \in 1..3 : cut[k + 1] - cut[k] > side * side
        IN  /\ long => (encoded_image = None /\ error_popup = "ValueError")
            /\ encoded_image # None =>
                  \A k \in 1..3 : \A j \in 1..(cut[k + 1] - cut[k]) :
                      Flatten(Val(encoded_image), k)[j] = q[cut[k] + j]

C6_Witness ==
    /\ encoding_method = "A"
    /\ pc = "encoded"
    /\ error_popup = "ValueError"
    /\ encoded_image = None
    /\ Len(pcm) = 4
    /\ Len(channels[1]) = 1
    /\ Len(channels[3]) = 2

\* C7 as stated: for every method, re-encoding the decoded samples of a
\* raster gives that raster again.
C7_Idempotent ==
    (pc = "reencoded" /\ error_popup # "CalledProcessError") =>
        encoded_image = first_image

\* C7 amended: for Methods A and B, re-encoding the decoded samples of a
\* raster gives a byte-identical raster (same side, same value in every
\* cell of every channel).
C7_IdempotentAB ==
    (pc = "reencoded" /\ error_popup # "CalledProcessError"
       /\ encoding_method \in {"A", "B"}) =>
        encoded_image = first_image

C7_Witness ==
    /\ pc = "reencoded"
    /\ encoding_method = "A"
    /\ encoded_image # None
    /\ encoded_image = first_image
    /\ Val(encoded_image).h = 2
    /\ Val(encoded_image).px[1][1] = <<255, 127, 255>>
    /\ Val(encoded_image).px[2][2] = <<0, 0, 0>>

\* C8 as stated: Method A cuts the n bytes at floor(n/3) and 2*floor(n/3),
\* so red and green have equal length and only blue is longer.
C8_CutsAtTwiceThird ==
    (encoding_method = "A" /\ Converted) =>
        LET q == PcmBytes
            n == Len(pcm)
        IN  /\ channels = <<SubSeq(q, 1, n \div 3),
                            SubSeq(q, (n \div 3) + 1, 2 * (n \div 3)),
                            SubSeq(q, 2 * (n \div 3) + 1, n)>>
            /\ Len(channels[1]) = Len(channels[2])

\* C8 amended: Method A cuts the n bytes at floor(n/3) and floor(2n/3):
\* red = bytes [0, floor(n/3)), green = [floor(n/3), floor(2n/3)), blue the
\* rest; red is the shortest, green is one longer than red when
\* n mod 3 = 2, and blue is one longer than red when n mod 3 is 1 or 2.
C8_CutsAtTwoThirds ==
    (encoding_method = "A" /\ Converted) =>
        LET q == PcmBytes
            n == Len(pcm)
        IN  /\ channels = <<SubSeq(q, 1, n \div 3),
                            SubSeq(q, (n \div 3) + 1, (2 * n) \div 3),
                            SubSeq(q, ((2 * n) \div 3) + 1, n)>>
            /\ Len(channels[1]) = n \div 3
            /\ Len(channels[2]) = (n \div 3) + (IF n % 3 = 2 THEN 1 ELSE 0)
            /\ Len(channels[3]) = (n \div 3) + (IF n % 3 = 0 THEN 0 ELSE 1)

C8_Witness ==
    /\ encoding_method = "A"
    /\ Converted
    /\ Len(pcm) = 5
    /\ Len(channels[1]) = 1
    /\ Len(channels[2]) = 2
    /\ Len(channels[3]) = 2

\* ten times the exact weighted sum of pixel n of an image, with
\* x_16 = 257 * byte - 32768
TenfoldSum(img, n) ==
    6 * (257 * Flatten(img, 1)[n] - 32768)
    + 3 * (257 * Flatten(img, 2)[n] - 32768)
    + (257 * Flatten(img, 3)[n] - 32768)

DecodedC ==
    /\ encoding_method = "C"
    /\ pc \in {"decoded", "file_decoded"}
    /\ decoded_audio # None

\* C9 as stated: every Method C output sample is the weighted sum
\* 0.6*red_16 + 0.3*green_16 + 0.1*blue_16 rounded to the nearest integer.
C9_RemixRounds ==
    DecodedC =>
        \A n \in 1..Len(Val(decoded_audio)) :
            Abs(10 * Val(decoded_audio)[n] - TenfoldSum(Val(image_in), n)) <= 5

\* integer quotient rounded toward zero
TruncDiv(a, b) == IF a < 0 THEN 0 - ((0 - a) \div b) ELSE a \div b

\* C9 amended: every Method C output sample is the weighted sum
\* 0.6*red_16 + 0.3*green_16 + 0.1*blue_16 evaluated in floating point and
\* truncated toward zero: it is the exact sum truncated toward zero, except
\* that when the exact sum is a non-zero integer N the floating-point sum
\* may fall just short of N and the sample is then the integer next to N
\* toward zero.
C9_RemixTruncates ==
    DecodedC =>
        \A n \in 1..Len(Val(decoded_audio)) :
            LET out == Val(decoded_audio)[n]
                ten == TenfoldSum(Val(image_in), n)
                t   == TruncDiv(ten, 10)
            IN  \/ out = t
                \/ /\ ten % 10 = 0
                   /\ ten # 0
                   /\ out = TowardZero(t)

C9_Witness ==
    /\ DecodedC
    /\ pc = "file_decoded"
    /\ Val(image_in).px[1][1] = <<255, 0, 0>>
    /\ TenfoldSum(Val(image_in), 1) = 65530
    /\ Val(decoded_audio)[1] = 6553

MaxN == 120

\* low_fft, mid_fft, high_fft after the slice assignments of lines 541-547
BandSpectra(n) ==
    [low_fft  |-> [k \in Bins(n) |-> k \in LowBins(n)],
     mid_fft  |-> [k \in Bins(n) |-> k \in MidBins(n)],
     high_fft |-> [k \in Bins(n) |-> k \in HighBins(n)]]

InitBands ==
    /\ fft_N \in 1..MaxN
    /\ band_fft = None
    /\ QuantIdle
    /\ CodecIdle
    /\ SessionIdle
    /\ PlaybackIdle

\* the band split of one encode call with Method C
SplitBands ==
    /\ band_fft = None
    /\ band_fft' = Some(BandSpectra(fft_N))
    /\ UNCHANGED fft_N
    /\ UNCHANGED <<qvars, cvars, uvars, pvars>>

NextBands == SplitBands

SpecBands == InitBands /\ [][NextBands]_vars

\* the number of band spectra that keep bin k
KeptIn(k) ==
    Cardinality({b \in {"low_fft", "mid_fft", "high_fft"} : Val(band_fft)[b][k]})

\* C11: for every signal length N >= 1, with k_low = floor(1000 N / 44100)
\* and k_mid = floor(4000 N / 44100), every rfft bin 0 .. floor(N / 2) is kept
\* in exactly one band spectrum: low keeps [0, k_low), mid keeps
\* [k_low, k_mid), high keeps [k_mid, N / 2].
C11_BandPartition ==
    band_fft # None =>
        LET kl == (1000 * fft_N) \div 44100
            km == (4000 * fft_N) \div 44100
            sp == Val(band_fft)
        IN  /\ DOMAIN sp.low_fft = 0..(fft_N \div 2)
            /\ DOMAIN sp.mid_fft = 0..(fft_N \div 2)
            /\ DOMAIN sp.high_fft = 0..(fft_N \div 2)
            /\ \A k \in 0..(fft_N \div 2) :
                  /\ KeptIn(k) = 1
                  /\ sp.low_fft[k] <=> k < kl
                  /\ sp.mid_fft[k] <=> (kl <= k /\ k < km)
                  /\ sp.high_fft[k] <=> km <= k

\* a split whose three bands are all non-empty
C11_Witness ==
    /\ band_fft # None
    /\ \E k \in Bins(fft_N) : Val(band_fft).low_fft[k]
    /\ \E k \in Bins(fft_N) : Val(band_fft).mid_fft[k]
    /\ \E k \in Bins(fft_N) : Val(band_fft).high_fft[k]

(***************************************************************************)
(* Session: the file handlers of the application (choose_file,             *)
(* encode_file, decode_file, update_encoding_method, save_output) around   *)
(* the codec.  Paths are kept as name and extension; the file system is    *)
(* fixed: what ffmpeg makes of each audio file and what Image.open reads   *)
(* from each image file.                                                   *)
(***************************************************************************)
AudioPaths ==
    {[name |-> "beep", ext |-> "wav"], [name |-> "song", ext |-> "mp3"],
     [name |-> "torn", ext |-> "ogg"]}

ImagePaths ==
    {[name |-> "dot", ext |-> "png"], [name |-> "torn", ext |-> "jpg"]}

OtherPaths == {[name |-> "notes", ext |-> "txt"]}

\* the PCM stream ffmpeg writes for a file, None when ffmpeg fails
PcmOf(path) ==
    CASE path.name = "beep" -> Some(<<32767>>)
      [] path.name = "song" -> Some(<<0, 32767, 0>>)
      [] OTHER -> None

\* the image Image.open reads from a file, None when it cannot
ImageAt(path) ==
    CASE path.name = "dot" -> Some([h |-> 1, w |-> 1,
                                    px |-> <<<< <<128, 0, 255>> >>>>])
      [] OTHER -> None

\* audio_16bit.tobytes(), read back by wav_file.readframes: little endian
ToBytes(a) ==
    [k \in 1..(2 * Len(a)) |->
        LET u == a[(k + 1) \div 2] % 65536
        IN  IF k % 2 = 1 THEN u % 256 ELSE u \div 256]

\* load_audio_for_playback with a decoded buffer (a BytesIO is truthy)
load_audio_for_playback(decoded) ==
    /\ audio_data' = Some(ToBytes(Val(decoded)))
    /\ current_position' = 0

\* one codec call, as the session log keeps it; src is None for an
\* in-memory image
Call(op, src, method) == [op |-> op, src |-> src, method |-> method]

Ran(handler, text, calls, saved) ==
    [handler |-> handler, text |-> text, calls |-> calls, saved |-> saved]

\* a handler that returns without touching the codec or its outputs
NoCodecRun ==
    UNCHANGED <<encoded_image, decoded_audio, output_type, save_disabled,
                audio_data, current_position, error_popup>>

\* lines 272-283: encode_audio_to_image(file_path), and on success the
\* preview, save_btn, and the auto-decode of the raster for playback
EncodeRun(handler, text, method, path) ==
    \E bands \in (IF method = "C" /\ PcmOf(path) # None
                  THEN BandBytes(Val(PcmOf(path))) ELSE {<<>>}) :
    \E enc \in {encode_audio_to_image(method,
                    IF PcmOf(path) = None THEN <<>> ELSE Val(PcmOf(path)),
                    PcmOf(path) # None, bands)} :
        /\ encoded_image' = enc.ret
        /\ IF enc.ret = None
           THEN /\ error_popup' = enc.popup
                /\ ran' = Some(Ran(handler, text,
                       <<Call("encode_audio_to_image", Some(path), method)>>, ""))
                /\ UNCHANGED <<decoded_audio, output_type, save_disabled,
                               audio_data, current_position>>
           ELSE \E dec \in {decode_image_to_audio(method, float_bits, enc.ret)} :
                /\ output_type' = Some("image")
                /\ save_disabled' = FALSE
                /\ decoded_audio' = dec.ret
                /\ error_popup' = dec.popup
                /\ ran' = Some(Ran(handler, text,
                       <<Call("encode_audio_to_image", Some(path), method),
                         Call("decode_image_to_audio", None, method)>>, ""))
                /\ IF dec.ret # None THEN load_audio_for_playback(dec.ret)
                   ELSE UNCHANGED <<audio_data, current_position>>

\* encode_file(use_last, file_path); picked is what its own file chooser
\* returns (None when the dialog is cancelled), method is
\* self.encoding_method at the time of the call
encode_file(handler, text, method, use_last, file_path, picked) ==
    LET remember == file_path # None \/ (~use_last /\ picked # None)
        target   == IF file_path # None THEN file_path
                    ELSE IF ~use_last THEN picked
                    ELSE last_audio_file
    IN  /\ last_audio_file' = IF remember THEN target ELSE last_audio_file
        /\ last_operation' = IF remember THEN Some("encode") ELSE last_operation
        /\ UNCHANGED last_image_file
        /\ IF target = None
           THEN NoCodecRun /\ ran' = Some(Ran(handler, text, <<>>, ""))
           ELSE EncodeRun(handler, text, method, Val(target))

\* lines 306-313: decode_image_to_audio(file_path), and on success the
\* playback buffer, the preview and save_btn
DecodeRun(handler, text, method, path) ==
    \E dec \in {decode_image_to_audio(method, float_bits, ImageAt(path))} :
        /\ decoded_audio' = dec.ret
        /\ error_popup' = dec.popup
        /\ ran' = Some(Ran(handler, text,
               <<Call("decode_image_to_audio", Some(path), method)>>, ""))
        /\ UNCHANGED encoded_image
        /\ IF dec.ret # None
           THEN /\ load_audio_for_playback(dec.ret)
                /\ output_type' = Some("audio")
                /\ save_disabled' = FALSE
           ELSE UNCHANGED <<audio_data, current_position, output_type,
                            save_disabled>>

decode_file(handler, text, method, use_last, file_path, picked) ==
    LET remember == file_path # None \/ (~use_last /\ picked # None)
        target   == IF file_path # None THEN file_path
                    ELSE IF ~use_last THEN picked
                    ELSE last_image_file
    IN  /\ last_image_file' = IF remember THEN target ELSE last_image_file
        /\ last_operation' = IF remember THEN Some("decode") ELSE last_operation
        /\ UNCHANGED last_audio_file
        /\ IF target = None
           THEN NoCodecRun /\ ran' = Some(Ran(handler, text, <<>>, ""))
           ELSE DecodeRun(handler, text, method, Val(target))

\* the handler returns at once: nothing but the log changes
Returns(handler, text, saved) ==
    /\ ran' = Some(Ran(handler, text, <<>>, saved))
    /\ NoCodecRun
    /\ UNCHANGED <<last_operation, last_audio_file, last_image_file>>

\* choose_file: the dialog is cancelled, or the extension picks the handler
choose_file(picked) ==
    /\ UNCHANGED encoding_method
    /\ IF picked = None THEN Returns("choose_file", "", "")
       ELSE IF Val(picked).ext \in {"wav", "mp3", "ogg", "flac"}
       THEN encode_file("choose_file", "", encoding_method, FALSE, picked, None)
       ELSE IF Val(picked).ext \in {"png", "jpg", "jpeg"}
       THEN decode_file("choose_file", "", encoding_method, FALSE, picked, None)
       ELSE Returns("choose_file", "", "")

SpinnerValues ==
    {"A - Channel Multiplexing", "B - Pixel Interleaving",
     "C - Spectral Encoding"}

\* method_map.get(text, "A")
method_map(text) ==
    CASE text = "A - Channel Multiplexing" -> "A"
      [] text = "B - Pixel Interleaving" -> "B"
      [] text = "C - Spectral Encoding" -> "C"
      [] OTHER -> "A"

\* variant: the remembered image is looked at first, whatever ran last
Reprocess_ImageFirst(operation, audio_file, image_file) ==
    IF image_file # None THEN "decode"
    ELSE IF audio_file # None THEN "encode"
    ELSE ""

\* lines 248-251: which operation update_encoding_method runs again
Reprocess(operation, audio_file, image_file) ==
    IF operation = Some("encode") /\ audio_file # None THEN "encode"
    ELSE IF operation = Some("decode") /\ image_file # None THEN "decode"
    ELSE ""

update_encoding_method(text) ==
    /\ encoding_method' = method_map(text)
    /\ \E again \in {Reprocess(last_operation, last_audio_file, last_image_file)} :
          CASE again = "encode" ->
                 encode_file("update_encoding_method", text, method_map(text),
                             TRUE, None, None)
            [] again = "decode" ->
                 decode_file("update_encoding_method", text, method_map(text),
                             TRUE, None, None)
            [] OTHER -> Returns("update_encoding_method", text, "")

\* save_output: what is written (the save dialog may be cancelled)
save_output(confirmed) ==
    /\ UNCHANGED encoding_method
    /\ IF output_type = Some("image") /\ encoded_image # None
       THEN Returns("save_output", "", IF confirmed THEN "image" ELSE "")
       ELSE IF output_type = Some("audio") /\ decoded_audio # None
       THEN Returns("save_output", "", IF confirmed THEN "audio" ELSE "")
       ELSE Returns("save_output", "", "")

\* __init__ (lines 94-113) and the property defaults (lines 88-92)
InitSession ==
    /\ encoding_method = "A"
    /\ float_bits \in {F32, F64}
    /\ pcm = <<>>
    /\ image_in = None
    /\ encoded_image = None
    /\ decoded_audio = None
    /\ channels = <<>>
    /\ first_image = None
    /\ error_popup = ""
    /\ raised = ""
    /\ pc = "idle"
    /\ QuantIdle
    /\ ExtraIdle

\* what no file handler touches
SessionFrame ==
    UNCHANGED <<qvars, bvars, float_bits, pcm, image_in, channels, first_image,
                raised, pc, is_playing, stream, callback, returned, slider,
                first_start>>

ChooseFile ==
    /\ \E picked \in {None} \cup
                     {Some(f) : f \in AudioPaths \cup ImagePaths \cup OtherPaths} :
          choose_file(picked)
    /\ SessionFrame

\* encode_file() called with its defaults: its own dialog picks the file
OpenAudio ==
    /\ \E picked \in {None} \cup {Some(f) : f \in AudioPaths} :
          encode_file("encode_file", "", encoding_method, FALSE, None, picked)
    /\ UNCHANGED encoding_method
    /\ SessionFrame

\* decode_file() called with its defaults
OpenImage ==
    /\ \E picked \in {None} \cup {Some(f) : f \in ImagePaths} :
          decode_file("decode_file", "", encoding_method, FALSE, None, picked)
    /\ UNCHANGED encoding_method
    /\ SessionFrame

\* the spinner text changes
SelectMethod ==
    /\ \E text \in SpinnerValues : update_encoding_method(text)
    /\ SessionFrame

\* save_btn is pressed; a disabled button sends no event
SaveOutput ==
    /\ save_disabled = FALSE
    /\ \E confirmed \in BOOLEAN : save_output(confirmed)
    /\ SessionFrame

NextSession == ChooseFile \/ OpenAudio \/ OpenImage \/ SelectMethod \/ SaveOutput

SpecSession == InitSession /\ [][NextSession]_vars

\* the method a spinner text stands for
Chosen(text) ==
    IF text = "B - Pixel Interleaving" THEN "B"
    ELSE IF text = "C - Spectral Encoding" THEN "C"
    ELSE "A"

\* C12: update_encoding_method sets encoding_method to the chosen method,
\* then runs again exactly the last kind of operation on its remembered
\* source (encode on last_audio_file after an encode, decode on
\* last_image_file after a decode, nothing before any operation), and
\* leaves last_operation, last_audio_file and last_image_file as they were.
C12_RerunOnMethodChange ==
    [][(ran' # None /\ Val(ran').handler = "update_encoding_method") =>
          LET calls == Val(ran').calls
              m     == Chosen(Val(ran').text)
          IN  /\ encoding_method' = m
              /\ last_operation = None => calls = <<>>
              /\ last_operation = Some("encode") =>
                    /\ calls # <<>>
                    /\ calls[1] = Call("encode_audio_to_image", last_audio_file, m)
                    /\ \A k \in 2..Len(calls) : calls[k].src = None
              /\ last_operation = Some("decode") =>
                    calls = <<Call("decode_image_to_audio", last_image_file, m)>>
              /\ last_operation' = last_operation
              /\ last_audio_file' = last_audio_file
              /\ last_image_file' = last_image_file]_vars

\* a method change that decoded the remembered image again while an audio
\* file is remembered too
C12_Witness ==
    /\ ran # None
    /\ Val(ran).handler = "update_encoding_method"
    /\ Val(ran).calls # <<>>
    /\ Val(ran).calls[1].op = "decode_image_to_audio"
    /\ Val(ran).calls[1].method = "C"
    /\ last_audio_file # None
    /\ last_operation = Some("decode")

\* C15: whenever the save button is enabled, the output output_type selects
\* exists: 'image' implies encoded_image is not None, 'audio' implies
\* decoded_audio is not None.
C15_SaveableOutputPresent ==
    save_disabled = FALSE =>
        /\ output_type = Some("image") => encoded_image # None
        /\ output_type = Some("audio") => decoded_audio # None

(***************************************************************************)
(* Playback: audio_callback on the audio thread.  The callback is two      *)
(* steps, split where it has read self.current_position into start and     *)
(* not yet written self.current_position = end.                            *)
(***************************************************************************)
MaxTotal == 4
MaxFrames == 3

\* the frames of a loaded file: byte k of the buffer is k, so that every
\* slice differs from every other and from silence
Tape(total) == [k \in 1..(2 * total) |-> k]

\* b'\x00' * frame_count * 2
Silence(frame_count) == [k \in 1..(2 * frame_count) |-> 0]

\* variant: the end of the slice is not clamped to the buffer
SliceEnd_Unclamped(start, frame_count, total_samples) == start + frame_count

\* end = min(start + frame_count, total_samples)
SliceEnd(start, frame_count, total_samples) ==
    IF start + frame_count < total_samples THEN start + frame_count
    ELSE total_samples

\* a[from:to] of a bytes object: the bounds are clamped to the buffer
Slice(a, from, to) ==
    LET lo == IF from > Len(a) THEN Len(a) ELSE from
        hi == IF to > Len(a) THEN Len(a) ELSE to
    IN  SubSeq(a, lo + 1, hi)

Return(data, flag, start, frame_count) ==
    [data |-> data, flag |-> flag, start |-> start, frame_count |-> frame_count]

\* lines 419-427: the early returns, or start and end are computed.  A
\* stream is "opened" until its first callback, then "active"; first_start
\* keeps the position the first callback of an opened stream reads.
CallbackEnter(frame_count) ==
    /\ stream \in {Some("opened"), Some("active")}
    /\ callback.pc = "idle"
    /\ first_start' = IF stream = Some("opened") THEN Some(current_position)
                      ELSE first_start
    /\ IF audio_data = None
       THEN /\ returned' = Some(Return(Silence(frame_count), "paComplete",
                                       current_position, frame_count))
            /\ stream' = Some("complete")
            /\ UNCHANGED callback
       ELSE LET total_samples == Len(Val(audio_data)) \div 2
                start == current_position
                end   == SliceEnd(start, frame_count, total_samples)
            IN  IF start >= total_samples
                THEN /\ returned' = Some(Return(Silence(frame_count),
                                           "paComplete", start, frame_count))
                     /\ stream' = Some("complete")
                     /\ UNCHANGED callback
                ELSE /\ callback' = [pc |-> "slice", start |-> start,
                                     end |-> end, frame_count |-> frame_count,
                                     total_samples |-> total_samples]
                     /\ stream' = Some("active")
                     /\ UNCHANGED returned
    /\ UNCHANGED <<audio_data, current_position, is_playing, slider>>
    /\ UNCHANGED <<qvars, cvars, bvars, uvars>>

\* lines 429-432: the slice, the write of current_position, the return;
\* paComplete ends the stream
CallbackLeave ==
    /\ callback.pc = "slice"
    /\ current_position' = callback.end
    /\ \E flag \in {IF callback.end < callback.total_samples THEN "paContinue"
                    ELSE "paComplete"} :
          /\ returned' = Some(Return(Slice(Val(audio_data), callback.start * 2,
                                           callback.end * 2),
                                     flag, callback.start, callback.frame_count))
          /\ stream' = IF flag = "paComplete" THEN Some("complete") ELSE stream
    /\ callback' = [pc |-> "idle"]
    /\ UNCHANGED <<audio_data, is_playing, slider, first_start>>
    /\ UNCHANGED <<qvars, cvars, bvars, uvars>>

\* a loaded buffer (toggle_playback and slider_released start no stream on
\* an empty one), any position in it, the stream running
InitPlay ==
    /\ \E total \in 1..MaxTotal :
          /\ audio_data = Some(Tape(total))
          /\ current_position \in 0..total
    /\ is_playing = TRUE
    /\ stream = Some("active")
    /\ ThreadsIdle
    /\ QuantIdle
    /\ CodecIdle
    /\ BandsIdle
    /\ SessionIdle

AudioCallback == \E frame_count \in 0..MaxFrames : CallbackEnter(frame_count)

NextPlay == AudioCallback \/ CallbackLeave

SpecPlay == InitPlay /\ [][NextPlay]_vars

\* PortAudio keeps calling the callback of an active stream, with the
\* frames_per_buffer of the stream (1024 by default)
SpecPlayFair ==
    /\ SpecPlay
    /\ SF_vars(\E frame_count \in 1..MaxFrames : CallbackEnter(frame_count))
    /\ WF_vars(CallbackLeave)

\* total = len(audio_data) // 2
Total == Len(Val(audio_data)) \div 2

\* the audio thread is between two callbacks and one has returned
Returned == callback.pc = "idle" /\ returned # None

\* the samples [from, to) of the buffer
Samples(from, to) == SubSeq(Val(audio_data), 2 * from + 1, 2 * to)

\* the end the claim gives a callback: min(start + frame_count, total)
ClaimedEnd(r) ==
    IF r.start + r.frame_count < Total THEN r.start + r.frame_count ELSE Total

\* position, flag and progress after a callback, as the claim states them
PositionClaims ==
    /\ 0 <= current_position /\ current_position <= Total
    /\ Returned =>
          LET r == Val(returned)
          IN  /\ current_position = ClaimedEnd(r)
              /\ current_position >= r.start
              /\ r.flag = "paComplete" <=>
                    (ClaimedEnd(r) = Total \/ r.start >= Total)
              /\ r.flag \in {"paComplete", "paContinue"}

Completes == <>(returned # None /\ Val(returned).flag = "paComplete")

\* C13 as stated: current_position stays within 0 .. total and never
\* decreases; each callback returns exactly the samples
\* [start, min(start + frame_count, total)) and moves current_position to
\* that end; it returns paComplete exactly when that end is total; with
\* frame_count >= 1 playback reaches paComplete.
C13_ReturnsSlice ==
    /\ [](PositionClaims /\
          (Returned => Val(returned).data =
                          Samples(Val(returned).start, ClaimedEnd(Val(returned)))))
    /\ [][current_position' >= current_position]_vars
    /\ Completes

\* C13 amended: as stated, except that a callback that starts at the end of
\* the buffer (start >= total) returns frame_count samples of silence.
C13_PositionInBounds ==
    /\ [](PositionClaims /\
          (Returned =>
              LET r == Val(returned)
              IN  IF r.start < Total
                  THEN r.data = Samples(r.start, ClaimedEnd(r))
                  ELSE r.data = [k \in 1..(2 * r.frame_count) |-> 0]))
    /\ [][current_position' >= current_position]_vars
    /\ Completes

\* a callback asked for more frames than were left: a short slice, the
\* position at the end of the buffer, paComplete
C13_Witness ==
    /\ Returned
    /\ Val(returned).start < Total
    /\ Val(returned).start + Val(returned).frame_count > Total
    /\ Val(returned).flag = "paComplete"
    /\ Len(Val(returned).data) = 2 * (Total - Val(returned).start)
    /\ current_position = Total

(***************************************************************************)
(* Seek: slider_released on the main thread while the audio thread runs    *)
(* audio_callback.  The handler is three steps: the write of               *)
(* current_position, stop_playback, start_playback.                        *)
(***************************************************************************)
\* lines 364-369: a non-empty buffer is loaded; new_pos is the slider
\* value, 0 .. progress_slider.max
SliderReleased ==
    /\ slider.pc = "idle"
    /\ audio_data # None
    /\ Val(audio_data) # <<>>
    /\ \E new_pos \in 0..(Len(Val(audio_data)) \div 2) :
          /\ current_position' = new_pos
          /\ slider' = [pc |-> IF is_playing THEN "stop" ELSE "idle",
                        new_pos |-> new_pos]
    /\ first_start' = None
    /\ UNCHANGED <<audio_data, is_playing, stream, callback, returned>>
    /\ UNCHANGED <<qvars, cvars, bvars, uvars>>

\* stop_playback, called by slider_released: stream.stop_stream() returns
\* once a running callback has returned
StopPlayback ==
    /\ slider.pc = "stop"
    /\ callback.pc = "idle"
    /\ is_playing' = FALSE
    /\ stream' = None
    /\ slider' = [slider EXCEPT !.pc = "start"]
    /\ UNCHANGED <<audio_data, current_position, callback, returned, first_start>>
    /\ UNCHANGED <<qvars, cvars, bvars, uvars>>

\* start_playback, called by slider_released: self.p.open(...) gives a new
\* stream, or raises and show_error is all that happens
StartPlayback ==
    /\ slider.pc = "start"
    /\ \E opens \in BOOLEAN :
          /\ stream' = IF opens THEN Some("opened") ELSE stream
          /\ is_playing' = IF opens THEN TRUE ELSE is_playing
    /\ slider' = [slider EXCEPT !.pc = "idle"]
    /\ UNCHANGED <<audio_data, current_position, callback, returned, first_start>>
    /\ UNCHANGED <<qvars, cvars, bvars, uvars>>

\* PortAudio calls the callback with the frames_per_buffer of the stream
\* (1024 by default), never with 0
StreamCallback == \E frame_count \in 1..MaxFrames : CallbackEnter(frame_count)

NextSeek ==
    StreamCallback \/ CallbackLeave \/ SliderReleased \/ StopPlayback \/ StartPlayback

SpecSeek == InitPlay /\ [][NextSeek]_vars

\* C14: when slider_released sets current_position = new_pos while playing
\* and restarts the stream, then under every interleaving with a running
\* audio_callback the first callback of the restarted stream starts
\* reading at new_pos.
C14_SeekNeverLost ==
    first_start # None => Val(first_start) = slider.new_pos
====
